---- MODULE Spec2Model ----
(***************************************************************************)
(* Billing-cycle accounting engine of the LADWP energy cost integration   *)
(* (custom_components/ladwp_energy_cost/sensor.py, const.py).             *)
(*                                                                         *)
(* Number representation.  TLA+ has integers only, so the floats of the   *)
(* program are fixed-point integers:                                       *)
(*   time      minutes since 1 January 1970, 00:00 local time              *)
(*   power     watts                                                       *)
(*   energy    1/KwhScale kWh                                              *)
(*   rate      1/100000 dollar per kWh (the tables have five decimals)    *)
(*   cost      energy unit * rate unit                                     *)
(* All inputs are chosen so that the conversions are exact.                *)
(* An optional value (None) is the empty sequence, a present value v is   *)
(* <<v>>; a call that raises has the outcome Raised.                       *)
(***************************************************************************)
EXTENDS Integers, Sequences, FiniteSets, TLC

VARIABLES
    now,              \* dt_util.now(): the local wall clock
    pc,               \* position of the coordinator: "setup", "backfill", "live"
    rate_plan,        \* self.rate_plan
    billing_day,      \* self.billing_day
    zone,             \* self.zone
    billing_period,   \* self.billing_period
    solar_entity_id,  \* self.solar_entity_id ("" when not configured)
    load_entity_id,   \* self.load_entity_id ("" when not configured)
    data,             \* self.data: the energy ledger
    last_reset,       \* self.last_reset
    power_history,    \* self._power_history: source key -> accepted values
    grid_history,     \* history series handed to _process_historical_data
    solar_history,
    load_history,
    timestamps,       \* merged timestamps of the backfill pass
    idx,              \* loop index of the backfill pass
    ticks,            \* number of live ticks run so far
    last              \* the operation that produced this state, with its inputs

vars == <<now, pc, rate_plan, billing_day, zone, billing_period,
          solar_entity_id, load_entity_id, data, last_reset, power_history,
          grid_history, solar_history, load_history, timestamps, idx, ticks,
          last>>

config == <<rate_plan, billing_day, zone, billing_period,
            solar_entity_id, load_entity_id>>

backfill == <<grid_history, solar_history, load_history, timestamps, idx>>

----------------------------------------------------------------------------
(* Bounds of the model *)

\* the number of samples (history timestamps and live ticks) of one behaviour
MaxSamples == 2

\* the number of samples of a sustained level that are counted
MaxSustained == 3

----------------------------------------------------------------------------
(* Optional values and raised errors *)

None == <<>>
Some(v) == <<v>>
Raised == <<>>
Val(o) == o[1]

----------------------------------------------------------------------------
(* datetime: calendar arithmetic on minutes since 1 January 1970, with the *)
(* proleptic Gregorian calendar of Python's datetime                       *)

KwhScale == 50

IsLeap(y) == (y % 4 = 0 /\ y % 100 # 0) \/ y % 400 = 0

DaysInMonth(y, m) ==
    CASE m \in {4, 6, 9, 11} -> 30
      [] m = 2 -> IF IsLeap(y) THEN 29 ELSE 28
      [] OTHER -> 31

\* date(y, m, d).toordinal() - date(1970, 1, 1).toordinal()
DaysFromCivil(y, m, d) ==
    LET yy == IF m <= 2 THEN y - 1 ELSE y
        era == yy \div 400
        yoe == yy - era * 400
        mp == IF m > 2 THEN m - 3 ELSE m + 9
        doy == (153 * mp + 2) \div 5 + d - 1
        doe == yoe * 365 + yoe \div 4 - yoe \div 100 + doy
    IN  era * 146097 + doe - 719468

\* datetime(y, m, d, hh, mm); ValueError when the day is not in the month
DateTime(y, m, d, hh, mm) ==
    IF d \in 1..DaysInMonth(y, m)
    THEN Some(DaysFromCivil(y, m, d) * 1440 + hh * 60 + mm)
    ELSE Raised

\* dt_util.start_of_local_day(datetime(y, m, d))
StartOfLocalDay(y, m, d) == DateTime(y, m, d, 0, 0)

DayNumber(t) == t \div 1440

\* the fields year, month, day of the date with day number z
Civil(z) ==
    LET zz == z + 719468
        era == zz \div 146097
        doe == zz - era * 146097
        yoe == (doe - doe \div 1460 + doe \div 36524 - doe \div 146096) \div 365
        doy == doe - (365 * yoe + yoe \div 4 - yoe \div 100)
        mp == (5 * doy + 2) \div 153
        m == IF mp < 10 THEN mp + 3 ELSE mp - 9
    IN  [year |-> yoe + era * 400 + (IF m <= 2 THEN 1 ELSE 0),
         month |-> m,
         day |-> doy - (153 * mp + 2) \div 5 + 1]

Year(t) == Civil(DayNumber(t)).year
Month(t) == Civil(DayNumber(t)).month
Day(t) == Civil(DayNumber(t)).day

\* date.time(), as minutes since midnight
TimeOfDay(t) == t % 1440

\* date.weekday(): Monday = 0 .. Sunday = 6; 1 January 1970 is a Thursday
Weekday(t) == (DayNumber(t) + 3) % 7

\* the time(h, m) constructor of const.py
Time(hh, mm) == hh * 60 + mm

----------------------------------------------------------------------------
(* const.py *)

RATE_PLAN_STANDARD == "standard"
RATE_PLAN_TIME_OF_USE == "time_of_use"
RATE_PLAN_OPTIONS == {RATE_PLAN_STANDARD, RATE_PLAN_TIME_OF_USE}

ZONE_1 == "zone_1"
ZONE_2 == "zone_2"
ZONE_OPTIONS == {ZONE_1, ZONE_2}

BILLING_MONTHLY == "monthly"
BILLING_BIMONTHLY == "bimonthly"
BILLING_PERIOD_OPTIONS == {BILLING_MONTHLY, BILLING_BIMONTHLY}

SUMMER_START_MONTH == 6
SUMMER_END_MONTH == 9

HIGH_PEAK_START == Time(13, 0)
HIGH_PEAK_END == Time(17, 0)
LOW_PEAK_SUMMER_MORNING_START == Time(10, 0)
LOW_PEAK_SUMMER_MORNING_END == Time(13, 0)
LOW_PEAK_SUMMER_EVENING_START == Time(17, 0)
LOW_PEAK_SUMMER_EVENING_END == Time(20, 0)
LOW_PEAK_WINTER_START == Time(10, 0)
LOW_PEAK_WINTER_END == Time(20, 0)

Limits(t1, t2) == [tier1_limit |-> t1 * KwhScale, tier2_limit |-> t2 * KwhScale]

TIER_LIMITS ==
    [z \in ZONE_OPTIONS |->
        [b \in BILLING_PERIOD_OPTIONS |->
            CASE z = ZONE_1 /\ b = BILLING_MONTHLY   -> Limits(350, 1050)
              [] z = ZONE_1 /\ b = BILLING_BIMONTHLY -> Limits(700, 2100)
              [] z = ZONE_2 /\ b = BILLING_MONTHLY   -> Limits(500, 1500)
              [] z = ZONE_2 /\ b = BILLING_BIMONTHLY -> Limits(1000, 3000)]]

Tiers(t1, t2, t3) == [tier1 |-> t1, tier2 |-> t2, tier3 |-> t3]

STANDARD_RATES_2024 ==
    [m \in 1..12 |->
        CASE m \in 1..3   -> Tiers(20042, 25901, 25901)
          [] m \in 4..5   -> Tiers(19645, 25504, 25504)
          [] m = 6        -> Tiers(19645, 25504, 34205)
          [] m \in 7..9   -> Tiers(21169, 27028, 35729)
          [] m \in 10..12 -> Tiers(21408, 27267, 27267)]

STANDARD_RATES_2025 ==
    [m \in 1..12 |->
        CASE m \in 1..3   -> Tiers(22296, 28155, 28155)
          [] m \in 4..5   -> Tiers(22765, 28624, 28624)
          [] m \in 6..9   -> Tiers(22765, 28624, 37325)
          [] m \in 10..12 -> Tiers(21408, 27267, 27267)]

STANDARD_RATES ==
    [summer |-> Tiers(21169, 27028, 35729),
     winter |-> Tiers(20042, 25901, 25901)]

Periods(hp, lp, b) == [high_peak |-> hp, low_peak |-> lp, base |-> b]

TOU_RATES_2024 ==
    [m \in 1..12 |->
        CASE m \in 1..3   -> Periods(22918, 22918, 20564)
          [] m \in 4..5   -> Periods(22521, 22521, 20167)
          [] m = 6        -> Periods(28361, 22521, 19777)
          [] m \in 7..9   -> Periods(29885, 24045, 21301)
          [] m \in 10..12 -> Periods(24284, 24284, 21930)]

TOU_RATES_2025 ==
    [m \in 1..12 |->
        CASE m \in 1..3   -> Periods(25172, 25172, 22818)
          [] m \in 4..5   -> Periods(25641, 25641, 23287)
          [] m \in 6..9   -> Periods(31481, 25641, 22897)
          [] m \in 10..12 -> Periods(24284, 24284, 21930)]

TOU_RATES ==
    [winter |-> Periods(22918, 22918, 20564),
     summer |-> Periods(29885, 24045, 21301)]

NET_METERING_CREDIT_RATE == 19740

PERIODS == <<"high_peak", "low_peak", "base">>
PeriodSet == {PERIODS[i] : i \in 1..Len(PERIODS)}

----------------------------------------------------------------------------
(* The ledger: self.data *)

Delivered(p) == p \o "_kwh_delivered"
Received(p) == p \o "_kwh_received"
Net(p) == "net_" \o p \o "_kwh"
Cost(p) == p \o "_cost"
Generated(p) == p \o "_kwh_generated"
Consumed(p) == p \o "_kwh_consumed"

ATTR_TOTAL_KWH_DELIVERED == "total_kwh_delivered"
ATTR_TOTAL_KWH_RECEIVED == "total_kwh_received"
ATTR_TOTAL_KWH_NET == "total_kwh_net"
ATTR_TOTAL_KWH_GENERATED == "total_kwh_generated"
ATTR_SOLAR_COST_SAVINGS == "solar_cost_savings"
ATTR_TOTAL_KWH_CONSUMED == "total_kwh_consumed"
ATTR_LOAD_COST == "load_cost"

GridKeys ==
    UNION {{Delivered(p), Received(p), Net(p), Cost(p)} : p \in PeriodSet}
    \cup {ATTR_TOTAL_KWH_DELIVERED, ATTR_TOTAL_KWH_RECEIVED, ATTR_TOTAL_KWH_NET}

SolarKeys ==
    {Generated(p) : p \in PeriodSet}
    \cup {ATTR_TOTAL_KWH_GENERATED, ATTR_SOLAR_COST_SAVINGS}

LoadKeys ==
    {Consumed(p) : p \in PeriodSet}
    \cup {ATTR_TOTAL_KWH_CONSUMED, ATTR_LOAD_COST}

\* _init_energy_data
InitEnergyData ==
    [k \in GridKeys
           \cup (IF solar_entity_id # "" THEN SolarKeys ELSE {})
           \cup (IF load_entity_id # "" THEN LoadKeys ELSE {}) |-> 0]

\* d[k] += x
Add(d, k, x) == [d EXCEPT ![k] = @ + x]

----------------------------------------------------------------------------
(* Billing cycle manager *)

\* _get_billing_cycle_start, with dt_util.now() = nw
GetBillingCycleStart(nw) ==
    IF Day(nw) >= billing_day
    THEN StartOfLocalDay(Year(nw), Month(nw), billing_day)
    ELSE LET last_month == IF Month(nw) > 1 THEN Month(nw) - 1 ELSE 12
             last_month_year == IF Month(nw) > 1 THEN Year(nw) ELSE Year(nw) - 1
         IN  StartOfLocalDay(last_month_year, last_month, billing_day)

\* _get_next_reset_time, with dt_util.now() = nw
GetNextResetTime(nw) ==
    IF Day(nw) < billing_day
    THEN StartOfLocalDay(Year(nw), Month(nw), billing_day)
    ELSE LET next_month == IF Month(nw) < 12 THEN Month(nw) + 1 ELSE 1
             next_month_year == IF Month(nw) < 12 THEN Year(nw) ELSE Year(nw) + 1
         IN  StartOfLocalDay(next_month_year, next_month, billing_day)

----------------------------------------------------------------------------
(* Period classifier *)

\* _is_summer_season
IsSummerSeason(date) ==
    SUMMER_START_MONTH <= Month(date) /\ Month(date) <= SUMMER_END_MONTH

GetTimePeriodWeekendBlind(date) ==
    LET current_time == TimeOfDay(date)
    IN  IF IsSummerSeason(date)
        THEN IF HIGH_PEAK_START <= current_time /\ current_time < HIGH_PEAK_END
             THEN "high_peak"
             ELSE IF \/ /\ LOW_PEAK_SUMMER_MORNING_START <= current_time
                        /\ current_time < LOW_PEAK_SUMMER_MORNING_END
                     \/ /\ LOW_PEAK_SUMMER_EVENING_START <= current_time
                        /\ current_time < LOW_PEAK_SUMMER_EVENING_END
                  THEN "low_peak"
                  ELSE "base"
        ELSE IF LOW_PEAK_WINTER_START <= current_time
                /\ current_time < LOW_PEAK_WINTER_END
             THEN "low_peak"
             ELSE "base"

GetTimePeriodClosedIntervals(date) ==
    LET current_time == TimeOfDay(date)
    IN  IF Weekday(date) >= 5 THEN "base"
        ELSE IF IsSummerSeason(date)
        THEN IF HIGH_PEAK_START <= current_time /\ current_time <= HIGH_PEAK_END
             THEN "high_peak"
             ELSE IF \/ /\ LOW_PEAK_SUMMER_MORNING_START <= current_time
                        /\ current_time <= LOW_PEAK_SUMMER_MORNING_END
                     \/ /\ LOW_PEAK_SUMMER_EVENING_START <= current_time
                        /\ current_time <= LOW_PEAK_SUMMER_EVENING_END
                  THEN "low_peak"
                  ELSE "base"
        ELSE IF LOW_PEAK_WINTER_START <= current_time
                /\ current_time <= LOW_PEAK_WINTER_END
             THEN "low_peak"
             ELSE "base"

\* _get_time_period
GetTimePeriod(date) ==
    LET current_time == TimeOfDay(date)
    IN  IF Weekday(date) >= 5 THEN "base"
        ELSE IF IsSummerSeason(date)
        THEN IF HIGH_PEAK_START <= current_time /\ current_time < HIGH_PEAK_END
             THEN "high_peak"
             ELSE IF \/ /\ LOW_PEAK_SUMMER_MORNING_START <= current_time
                        /\ current_time < LOW_PEAK_SUMMER_MORNING_END
                     \/ /\ LOW_PEAK_SUMMER_EVENING_START <= current_time
                        /\ current_time < LOW_PEAK_SUMMER_EVENING_END
                  THEN "low_peak"
                  ELSE "base"
        ELSE IF LOW_PEAK_WINTER_START <= current_time
                /\ current_time < LOW_PEAK_WINTER_END
             THEN "low_peak"
             ELSE "base"

----------------------------------------------------------------------------
(* Rate table and tier resolver *)

\* the tier chosen in the standard branch of _get_rate
TierOfStrict(total_consumption) ==
    LET tier1_limit == TIER_LIMITS[zone][billing_period]["tier1_limit"]
        tier2_limit == TIER_LIMITS[zone][billing_period]["tier2_limit"]
    IN  IF total_consumption < tier1_limit THEN "tier1"
        ELSE IF total_consumption < tier2_limit THEN "tier2"
        ELSE "tier3"

TierOf(total_consumption) ==
    LET tier1_limit == TIER_LIMITS[zone][billing_period]["tier1_limit"]
        tier2_limit == TIER_LIMITS[zone][billing_period]["tier2_limit"]
    IN  IF total_consumption <= tier1_limit THEN "tier1"
        ELSE IF total_consumption <= tier2_limit THEN "tier2"
        ELSE "tier3"

GetRateSeasonalFallback(d, date, period) ==
    LET year == Year(date)
        month == Month(date)
        season == IF IsSummerSeason(date) THEN "summer" ELSE "winter"
    IN  IF rate_plan = RATE_PLAN_TIME_OF_USE
        THEN IF year = 2024 THEN TOU_RATES_2024[month][period]
             ELSE IF year = 2025 THEN TOU_RATES_2025[month][period]
             ELSE TOU_RATES[season][period]
        ELSE LET total_consumption ==
                     d[ATTR_TOTAL_KWH_DELIVERED] - d[ATTR_TOTAL_KWH_RECEIVED]
                 tier == TierOf(total_consumption)
             IN  IF year = 2024 THEN STANDARD_RATES_2024[month][tier]
                 ELSE IF year = 2025 THEN STANDARD_RATES_2025[month][tier]
                 ELSE STANDARD_RATES[season][tier]

\* _get_rate, with self.data = d
GetRate(d, date, period) ==
    LET year == Year(date)
        month == Month(date)
        season == IF IsSummerSeason(date) THEN "summer" ELSE "winter"
    IN  IF rate_plan = RATE_PLAN_TIME_OF_USE
        THEN IF year = 2024 THEN TOU_RATES_2024[month][period]
             ELSE IF year = 2025 THEN TOU_RATES_2025[month][period]
             ELSE IF year > 2025 THEN TOU_RATES_2025[month][period]
             ELSE TOU_RATES[season][period]
        ELSE LET total_consumption ==
                     d[ATTR_TOTAL_KWH_DELIVERED] - d[ATTR_TOTAL_KWH_RECEIVED]
                 tier == TierOf(total_consumption)
             IN  IF year = 2024 THEN STANDARD_RATES_2024[month][tier]
                 ELSE IF year = 2025 THEN STANDARD_RATES_2025[month][tier]
                 ELSE IF year > 2025 THEN STANDARD_RATES_2025[month][tier]
                 ELSE STANDARD_RATES[season][tier]

----------------------------------------------------------------------------
(* Energy accumulator *)

grid_entity_id == "sensor.grid"

\* the energy of a sample taken as if every sample covered five minutes
EnergyFixedInterval(power, minutes) == (power * 5 * KwhScale) \div (60 * 1000)

\* power * duration_minutes * WATTS_TO_KWH_PER_MINUTE (1 / 60 / 1000)
Energy(power, minutes) == (power * minutes * KwhScale) \div (60 * 1000)

Abs(x) == IF x < 0 THEN -x ELSE x

\* the grid branch shared by the live tick and the backfill pass
AddGridAlwaysDelivered(d, period, grid_energy) ==
    Add(Add(d, Delivered(period), grid_energy),
        ATTR_TOTAL_KWH_DELIVERED, grid_energy)

AddGrid(d, period, grid_energy) ==
    IF grid_energy > 0
    THEN Add(Add(d, Delivered(period), grid_energy),
             ATTR_TOTAL_KWH_DELIVERED, grid_energy)
    ELSE LET received_energy == Abs(grid_energy)
         IN  Add(Add(d, Received(period), received_energy),
                 ATTR_TOTAL_KWH_RECEIVED, received_energy)

\* the solar branch without the addition to the total
AddSolarPeriodOnly(d, period, solar_power, minutes, rate) ==
    IF solar_power = None THEN d
    ELSE LET solar_energy == Energy(Val(solar_power), minutes)
         IN  Add(Add(d, Generated(period), solar_energy),
                 ATTR_SOLAR_COST_SAVINGS, solar_energy * rate)

\* the solar branch: only taken when a solar value is present
AddSolar(d, period, solar_power, minutes, rate) ==
    IF solar_power = None THEN d
    ELSE LET solar_energy == Energy(Val(solar_power), minutes)
         IN  Add(Add(Add(d, Generated(period), solar_energy),
                     ATTR_TOTAL_KWH_GENERATED, solar_energy),
                 ATTR_SOLAR_COST_SAVINGS, solar_energy * rate)

\* the load branch with the rate added to the cost without the energy
AddLoadFlatCharge(d, period, load_power, minutes, rate) ==
    IF load_power = None THEN d
    ELSE LET load_energy == Energy(Val(load_power), minutes)
         IN  Add(Add(Add(d, Consumed(period), load_energy),
                     ATTR_TOTAL_KWH_CONSUMED, load_energy),
                 ATTR_LOAD_COST, rate)

\* the load branch, without the call of _update_net_values_and_costs
AddLoad(d, period, load_power, minutes, rate) ==
    IF load_power = None THEN d
    ELSE LET load_energy == Energy(Val(load_power), minutes)
         IN  Add(Add(Add(d, Consumed(period), load_energy),
                     ATTR_TOTAL_KWH_CONSUMED, load_energy),
                 ATTR_LOAD_COST, load_energy * rate)

\* _get_rate with keys the tables may not have: the subscripts are evaluated
\* in the order of the source, and the first one that is not a key of its
\* table ends the call in a KeyError
GetRateOutcome(d, date, period) ==
    IF rate_plan = RATE_PLAN_TIME_OF_USE
    THEN IF period \notin PeriodSet THEN Raised
         ELSE Some(GetRate(d, date, period))
    ELSE IF zone \notin DOMAIN TIER_LIMITS THEN Raised
         ELSE IF billing_period \notin DOMAIN TIER_LIMITS[zone] THEN Raised
         ELSE Some(GetRate(d, date, period))

\* one iteration of the loop of _update_net_values_and_costs
UpdatePeriodOneRate(d, nw, period) ==
    LET net == d[Delivered(period)] - d[Received(period)]
    IN  [d EXCEPT ![Net(period)] = net,
                  ![Cost(period)] = net * GetRate(d, nw, period)]

UpdatePeriod(d, nw, period) ==
    LET net == d[Delivered(period)] - d[Received(period)]
    IN  [d EXCEPT ![Net(period)] = net,
                  ![Cost(period)] = IF net > 0
                                    THEN net * GetRate(d, nw, period)
                                    ELSE net * NET_METERING_CREDIT_RATE]

RECURSIVE UpdatePeriods(_, _, _)
UpdatePeriods(d, nw, i) ==
    IF i > Len(PERIODS) THEN d
    ELSE CHOOSE out \in {UpdatePeriods(d1, nw, i + 1) :
                         d1 \in {UpdatePeriod(d, nw, PERIODS[i])}} : TRUE

\* _update_net_values_and_costs, with self.data = d
UpdateNetValuesAndCosts(d, nw) ==
    CHOOSE out \in
        {[d1 EXCEPT ![ATTR_TOTAL_KWH_NET] =
                        d1[ATTR_TOTAL_KWH_DELIVERED] - d1[ATTR_TOTAL_KWH_RECEIVED]] :
         d1 \in {UpdatePeriods(d, nw, 1)}} : TRUE

----------------------------------------------------------------------------
(* Live tick *)

\* a state of the host's state registry
Absent == [kind |-> "absent", value |-> 0]
Unknown == [kind |-> "unknown", value |-> 0]
Unavailable == [kind |-> "unavailable", value |-> 0]
Text == [kind |-> "text", value |-> 0]
Number(v) == [kind |-> "number", value |-> v]

\* a state that is not a number read as 0
GetEntityStateTextAsZero(entity_id, st) ==
    IF entity_id = "" THEN None
    ELSE IF st.kind \in {"absent", "unknown", "unavailable"} THEN None
    ELSE IF st.kind = "number" THEN Some(st.value)
    ELSE Some(0)

\* _get_entity_state, with self.hass.states.get(entity_id) = st
GetEntityState(entity_id, st) ==
    IF entity_id = "" THEN None
    ELSE IF st.kind \in {"absent", "unknown", "unavailable"} THEN None
    ELSE IF st.kind = "number" THEN Some(st.value)
    ELSE None

Op(op, ts, minutes, grid, solar, load, updated, reset) ==
    [op |-> op, ts |-> ts, minutes |-> minutes, grid |-> grid, solar |-> solar,
     load |-> load, updated |-> updated, reset |-> reset]

\* an except clause that hands out a fresh ledger
ReturnFreshData(d) == InitEnergyData

\* the except clause of _async_update_data: "return self.data", with
\* self.data = d as the failed body left it
ReturnExistingData(d) == d

\* the body of _async_update_data after the reset check, with self.data = d.
\* The call of _update_net_values_and_costs stands in the body of
\* "if load_power is not None" (sensor.py:888-899).
Integrate(d, nw, grid_power, solar_power, load_power) ==
    LET current_period == GetTimePeriod(nw)
        current_rate == GetRate(d, nw, current_period)
        grid_energy == Energy(Val(grid_power), 1)
    IN  CHOOSE out \in
            {IF load_power # None THEN UpdateNetValuesAndCosts(d3, nw) ELSE d3 :
             d3 \in {AddLoad(d2, current_period, load_power, 1, current_rate) :
                     d2 \in {AddSolar(d1, current_period, solar_power, 1,
                                      current_rate) :
                             d1 \in {AddGrid(d, current_period, grid_energy)}}}} :
            TRUE

\* _async_update_data with dt_util.now() = nw and the registry states gs, ss, ls;
\* the result is the new self.data, the new self.last_reset and the outcome
AsyncUpdateData(nw, gs, ss, ls) ==
    LET next_reset == GetNextResetTime(nw)
        cycle == GetBillingCycleStart(nw)
        grid_power == GetEntityState(grid_entity_id, gs)
        solar_power == IF solar_entity_id # ""
                       THEN GetEntityState(solar_entity_id, ss) ELSE None
        load_power == IF load_entity_id # ""
                      THEN GetEntityState(load_entity_id, ls) ELSE None
        Out(op, d, lr, updated, reset) ==
            [data |-> d, last_reset |-> lr,
             last |-> Op(op, nw, 1, grid_power, solar_power, load_power,
                         updated, reset)]
    IN  IF next_reset = Raised
        THEN Out("tick_error", ReturnExistingData(data), last_reset, FALSE, FALSE)
        ELSE IF nw >= Val(next_reset) /\ cycle = Raised
        THEN Out("tick_error", ReturnExistingData(InitEnergyData), last_reset,
                 FALSE, TRUE)
        ELSE LET reset == nw >= Val(next_reset)
                 d0 == IF reset THEN InitEnergyData ELSE data
                 lr == IF reset THEN Val(cycle) ELSE last_reset
             IN  IF grid_power = None
                 THEN Out("tick_skipped", d0, lr, FALSE, reset)
                 ELSE Out("tick",
                          Integrate(d0, nw, grid_power, solar_power, load_power),
                          lr, load_power # None, reset)

\* the reset block of _async_update_data alone (sensor.py:841-842), with
\* dt_util.now() = nw: self.data is replaced first, then self.last_reset; when
\* the cycle start cannot be built the block ends in the ValueError
ResetEnergyDataKeepsCosts(nw) ==
    LET cycle == GetBillingCycleStart(nw)
        money == {Cost(p) : p \in PeriodSet}
                 \cup {ATTR_SOLAR_COST_SAVINGS, ATTR_LOAD_COST}
    IN  [data |-> [k \in DOMAIN InitEnergyData |->
                      IF k \in money THEN data[k] ELSE 0],
         last_reset |-> IF cycle = Raised THEN last_reset ELSE Val(cycle),
         raised |-> cycle = Raised]

ResetEnergyData(nw) ==
    LET cycle == GetBillingCycleStart(nw)
    IN  [data |-> InitEnergyData,
         last_reset |-> IF cycle = Raised THEN last_reset ELSE Val(cycle),
         raised |-> cycle = Raised]

----------------------------------------------------------------------------
(* Spike filter *)

power_history_size == 10
spike_threshold == 5000
max_change_ratio == 5
\* the history samples are multiples of PowerGrain watts; the statistical test
\* is scale-invariant and is computed on multiples to keep the squares small
PowerGrain == 100

RECURSIVE Sum(_)
Sum(seq) == IF seq = <<>> THEN 0 ELSE Head(seq) + Sum(Tail(seq))

Grains(seq) == [i \in 1..Len(seq) |-> seq[i] \div PowerGrain]
Squares(seq) == [i \in 1..Len(seq) |-> seq[i] * seq[i]]

\* self._power_history.get(entity_id, [])
HistoryOf(ph, entity_id) ==
    IF entity_id \in DOMAIN ph THEN ph[entity_id] ELSE <<>>

\* Method 2: |value - mean| > 3 * std_dev and std_dev > 0, multiplied out by
\* n = len(history): (n*value - sum)^2 > 9 * (n*sum(x^2) - sum^2) > 0
StatisticalSpike(power_value, history) ==
    /\ Len(history) >= 3
    /\ LET n == Len(history)
           h == Grains(history)
           v == power_value \div PowerGrain
           dev == n * v - Sum(h)
           nvar == n * Sum(Squares(h)) - Sum(h) * Sum(h)
       IN  dev * dev > 9 * nvar /\ nvar > 0

\* Method 3 without the test for a sudden drop
SuddenChangeGrowthOnly(power_value, history) ==
    /\ history # <<>>
    /\ LET last_value == history[Len(history)]
       IN  /\ 10 * Abs(last_value) > 1
           /\ 10 * Abs(power_value) > 1
           /\ Abs(power_value) > max_change_ratio * Abs(last_value)

\* Method 3: the floor _min_valid_power is 0.1
SuddenChange(power_value, history) ==
    /\ history # <<>>
    /\ LET last_value == history[Len(history)]
       IN  /\ 10 * Abs(last_value) > 1
           /\ 10 * Abs(power_value) > 1
           /\ \/ Abs(power_value) > max_change_ratio * Abs(last_value)
              \/ max_change_ratio * Abs(power_value) < Abs(last_value)

\* the ceiling compared with the signed value
IsSpikeSignedCeiling(ph, power_value, entity_id) ==
    LET history == HistoryOf(ph, entity_id)
        spike == \/ power_value > spike_threshold
                 \/ StatisticalSpike(power_value, history)
                 \/ SuddenChange(power_value, history)
        appended == Append(history, power_value)
        kept == IF spike THEN history
                ELSE IF Len(appended) > power_history_size
                THEN Tail(appended) ELSE appended
    IN  [spike |-> spike,
         power_history |-> [k \in DOMAIN ph \cup {entity_id} |->
                               IF k = entity_id THEN kept ELSE ph[k]]]

\* a full history that drops its newest entry to make room
IsSpikeEvictsNewest(ph, power_value, entity_id) ==
    LET history == HistoryOf(ph, entity_id)
        spike == \/ Abs(power_value) > spike_threshold
                 \/ StatisticalSpike(power_value, history)
                 \/ SuddenChange(power_value, history)
        kept == IF spike THEN history
                ELSE IF Len(history) >= power_history_size
                THEN Append(SubSeq(history, 1, Len(history) - 1), power_value)
                ELSE Append(history, power_value)
    IN  [spike |-> spike,
         power_history |-> [k \in DOMAIN ph \cup {entity_id} |->
                               IF k = entity_id THEN kept ELSE ph[k]]]

\* _is_spike: the verdict and the new self._power_history
IsSpike(ph, power_value, entity_id) ==
    LET history == HistoryOf(ph, entity_id)
        spike == \/ Abs(power_value) > spike_threshold
                 \/ StatisticalSpike(power_value, history)
                 \/ SuddenChange(power_value, history)
        appended == Append(history, power_value)
        kept == IF spike THEN history
                ELSE IF Len(appended) > power_history_size
                THEN Tail(appended) ELSE appended
    IN  [spike |-> spike,
         power_history |-> [k \in DOMAIN ph \cup {entity_id} |->
                               IF k = entity_id THEN kept ELSE ph[k]]]

----------------------------------------------------------------------------
(* Historical backfill *)

\* A history record.  fmt "stats": a statistics row (dict with "start" = ts and
\* "mean" = value); fmt "state": a state object (last_updated = ts, state =
\* value).  value None: no usable number.  entity_id "": the record carries no
\* entity id.
Record(fmt, ts, value, entity_id) ==
    [fmt |-> fmt, ts |-> ts, value |-> value, entity_id |-> entity_id]

EntityIdOf(entry) == IF entry.entity_id = "" THEN "unknown" ELSE entry.entity_id

\* the outcome of a matching record with a number
Filtered(ph, power_value, entity_id) ==
    LET last_valid_power == None
        verdict == IsSpike(ph, power_value, entity_id)
    IN  [value |-> IF ~verdict.spike THEN Some(power_value)
                   ELSE IF last_valid_power # None THEN last_valid_power
                   ELSE Some(0),
         power_history |-> verdict.power_history]

RECURSIVE ScanStatistics(_, _, _, _)
ScanStatistics(ph, history, timestamp, i) ==
    IF i > Len(history) THEN [value |-> None, power_history |-> ph]
    ELSE LET entry == history[i]
         IN  IF entry.fmt # "stats" \/ entry.ts # timestamp \/ entry.value = None
             THEN ScanStatistics(ph, history, timestamp, i + 1)
             ELSE Filtered(ph, Val(entry.value), EntityIdOf(entry))

RECURSIVE ScanStates(_, _, _, _)
ScanStates(ph, history, timestamp, i) ==
    IF i > Len(history) THEN [value |-> None, power_history |-> ph]
    ELSE LET state == history[i]
         IN  IF state.fmt # "state" \/ state.ts # timestamp
             THEN ScanStates(ph, history, timestamp, i + 1)
             ELSE IF state.value = None
             THEN [value |-> None, power_history |-> ph]
             ELSE Filtered(ph, Val(state.value), EntityIdOf(state))

\* _get_power_at_timestamp: the value and the new self._power_history
GetPowerAtTimestamp(ph, history, timestamp) ==
    IF history = <<>> THEN [value |-> None, power_history |-> ph]
    ELSE IF history[1].fmt = "stats"
    THEN ScanStatistics(ph, history, timestamp, 1)
    ELSE ScanStates(ph, history, timestamp, 1)

RECURSIVE SortedSeq(_)
SortedSeq(S) ==
    IF S = {} THEN <<>>
    ELSE LET m == CHOOSE x \in S : \A y \in S : x <= y
         IN  <<m>> \o SortedSeq(S \ {m})

TimestampsOf(history) == {history[i].ts : i \in 1..Len(history)}

\* the timestamps of the three series one after the other, neither sorted
\* nor deduplicated
GetSortedTimestampsConcatenated(gh, sh, lh) ==
    [i \in 1..(Len(gh) + Len(sh) + Len(lh)) |->
        IF i <= Len(gh) THEN gh[i].ts
        ELSE IF i <= Len(gh) + Len(sh) THEN sh[i - Len(gh)].ts
        ELSE lh[i - Len(gh) - Len(sh)].ts]

\* _get_sorted_timestamps
GetSortedTimestamps(gh, sh, lh) ==
    SortedSeq(TimestampsOf(gh) \cup TimestampsOf(sh) \cup TimestampsOf(lh))

\* the ledger update of one iteration of the loop of _process_historical_data
\* (sensor.py:433-460), with self.data = d and energy_factor = minutes / 60000
IntegrateSample(d, timestamp, minutes, grid_power, solar_power, load_power) ==
    LET period == GetTimePeriod(timestamp)
        rate == GetRate(d, timestamp, period)
        d1 == AddGrid(d, period, Energy(Val(grid_power), minutes))
        d2 == AddSolar(d1, period, solar_power, minutes, rate)
    IN  AddLoad(d2, period, load_power, minutes, rate)

\* the loop of _process_historical_data over samples of constant power that
\* follow each other after the given durations, the first at timestamp
RECURSIVE IntegrateSpans(_, _, _, _, _, _)
IntegrateSpans(d, timestamp, durations, grid_power, solar_power, load_power) ==
    IF durations = <<>> THEN d
    ELSE IntegrateSpans(
             IntegrateSample(d, timestamp, Head(durations),
                             grid_power, solar_power, load_power),
             timestamp + Head(durations), Tail(durations),
             grid_power, solar_power, load_power)

\* an iteration that books solar and load energy although the grid value is
\* missing
ProcessTimestampPartial(d, ph, i) ==
    LET timestamp == timestamps[i]
        g == GetPowerAtTimestamp(ph, grid_history, timestamp)
        s == IF solar_history # <<>>
             THEN GetPowerAtTimestamp(g.power_history, solar_history, timestamp)
             ELSE [value |-> None, power_history |-> g.power_history]
        l == IF load_history # <<>>
             THEN GetPowerAtTimestamp(s.power_history, load_history, timestamp)
             ELSE [value |-> None, power_history |-> s.power_history]
        minutes == IF i + 1 <= Len(timestamps)
                   THEN timestamps[i + 1] - timestamp ELSE 5
        period == GetTimePeriod(timestamp)
        rate == GetRate(d, timestamp, period)
    IN  [data |-> IF g.value = None
                  THEN AddLoad(AddSolar(d, period, s.value, minutes, rate),
                               period, l.value, minutes, rate)
                  ELSE IntegrateSample(d, timestamp, minutes,
                                       g.value, s.value, l.value),
         power_history |-> l.power_history,
         minutes |-> minutes,
         grid |-> g.value, solar |-> s.value, load |-> l.value]

\* one iteration of the loop of _process_historical_data, with self.data = d
\* and self._power_history = ph: the new ledger, the new spike histories and
\* the values read
ProcessTimestamp(d, ph, i) ==
    LET timestamp == timestamps[i]
        g == GetPowerAtTimestamp(ph, grid_history, timestamp)
        s == IF solar_history # <<>>
             THEN GetPowerAtTimestamp(g.power_history, solar_history, timestamp)
             ELSE [value |-> None, power_history |-> g.power_history]
        l == IF load_history # <<>>
             THEN GetPowerAtTimestamp(s.power_history, load_history, timestamp)
             ELSE [value |-> None, power_history |-> s.power_history]
        minutes == IF i + 1 <= Len(timestamps)
                   THEN timestamps[i + 1] - timestamp ELSE 5
    IN  [data |-> IF g.value = None THEN d
                  ELSE IntegrateSample(d, timestamp, minutes,
                                       g.value, s.value, l.value),
         power_history |-> l.power_history,
         minutes |-> minutes,
         grid |-> g.value, solar |-> s.value, load |-> l.value]

----------------------------------------------------------------------------
(* Specification Spec: one coordinator from construction through the       *)
(* backfill pass to the live ticks                                          *)

\* the clock at construction: Sunday 30 June 2024, two minutes before midnight
StartTimes == {Val(DateTime(2024, 6, 30, 23, 58))}

\* minutes between two operations of the coordinator
Elapsed == {1, 14 * 60 + 1}

\* a tick of 21006000 W for one minute is 350.1 kWh
GridStates ==
    {Absent, Unknown, Unavailable, Text,
     Number(-6000), Number(6000), Number(21006000)}
SolarStates == {Unavailable, Number(6000), Number(-6000)}
LoadStates == {Unavailable, Number(6000)}

\* timestamps of the recorded history: Friday 28 June 2024, 13:00 and 13:05
HistTimes == <<Val(DateTime(2024, 6, 28, 13, 0)), Val(DateTime(2024, 6, 28, 13, 5))>>

\* the series of one entity: empty, or samples at a prefix of the timestamps;
\* statistics rows carry no entity id
SeriesOf(fmt, entity_id, values) ==
    LET id == IF fmt = "stats" THEN "" ELSE entity_id
    IN  {<<>>}
        \cup {<<Record(fmt, HistTimes[1], Some(v), id)>> : v \in values}
        \cup {<<Record(fmt, HistTimes[1], Some(v), id),
                Record(fmt, HistTimes[2], Some(w), id)>> :
                 v \in values, w \in values}

Init ==
    /\ now \in StartTimes
    /\ pc = "setup"
    /\ rate_plan \in RATE_PLAN_OPTIONS
    /\ billing_day \in {1, 31}
    /\ zone = ZONE_1
    /\ billing_period = BILLING_MONTHLY
    /\ solar_entity_id \in {"", "sensor.solar"}
    /\ load_entity_id \in {"", "sensor.load"}
    /\ data = InitEnergyData
    /\ GetBillingCycleStart(now) # Raised
    /\ last_reset = Val(GetBillingCycleStart(now))
    /\ power_history = <<>>
    /\ grid_history = <<>>
    /\ solar_history = <<>>
    /\ load_history = <<>>
    /\ timestamps = <<>>
    /\ idx = 0
    /\ ticks = 0
    /\ last = Op("init", now, 0, None, None, None, FALSE, FALSE)

\* the history fetches of _load_historical_data return (sensor.py:318-335)
FetchHistories ==
    /\ \E fmt \in {"stats", "state"} :
       \E gh \in SeriesOf(fmt, grid_entity_id, {2400, -2400}) :
       \E sh \in IF solar_entity_id # "" /\ gh # <<>>
                 THEN SeriesOf(fmt, solar_entity_id, {1200, -1200})
                 ELSE {<<>>} :
       \E lh \in IF load_entity_id # "" /\ gh # <<>>
                 THEN SeriesOf(fmt, load_entity_id, {1200})
                 ELSE {<<>>} :
          /\ Len(GetSortedTimestamps(gh, sh, lh)) <= MaxSamples
          /\ grid_history' = gh
          /\ solar_history' = sh
          /\ load_history' = lh
          /\ timestamps' = IF gh = <<>> THEN <<>>
                           ELSE GetSortedTimestamps(gh, sh, lh)
          /\ idx' = 1
          /\ pc' = IF gh = <<>> THEN "live" ELSE "backfill"
    /\ last' = Op("load", now, 0, None, None, None, FALSE, FALSE)

\* a history fetch raises: the except clause logs the error and the setup
\* goes on with the ledger as it is (sensor.py:338-339)
FetchRaises ==
    /\ grid_history' = <<>>
    /\ solar_history' = <<>>
    /\ load_history' = <<>>
    /\ timestamps' = <<>>
    /\ idx' = 1
    /\ pc' = "live"
    /\ last' = Op("load_error", now, 0, None, None, None, FALSE, FALSE)

\* async_setup / _load_historical_data up to the loop of
\* _process_historical_data: the histories are fetched and the timestamps
\* merged, or a fetch raises
LoadHistoricalData ==
    /\ pc = "setup"
    /\ \/ FetchHistories
       \/ FetchRaises
    /\ UNCHANGED <<now, config, data, last_reset, power_history, ticks>>

\* one iteration of the loop of _process_historical_data; the last iteration
\* is followed by _update_net_values_and_costs(dt_util.now())
BackfillStep ==
    /\ pc = "backfill"
    /\ idx <= Len(timestamps)
    /\ \E r \in {ProcessTimestamp(data, power_history, idx)} :
       \E done \in {idx = Len(timestamps)} :
           /\ data' = IF done THEN UpdateNetValuesAndCosts(r.data, now)
                      ELSE r.data
           /\ power_history' = r.power_history
           /\ pc' = IF done THEN "live" ELSE "backfill"
           /\ last' = Op(IF r.grid = None THEN "backfill_skipped" ELSE "backfill",
                         timestamps[idx], r.minutes, r.grid, r.solar, r.load,
                         done, FALSE)
    /\ idx' = idx + 1
    /\ UNCHANGED <<now, config, last_reset, grid_history, solar_history,
                   load_history, timestamps, ticks>>

\* a scheduler that runs ticks while the setup is still replaying the history
TickDuringSetup ==
    /\ pc \in {"backfill", "live"}
    /\ Len(timestamps) + ticks < MaxSamples + 1
    /\ \E elapsed \in Elapsed, gs \in GridStates, ss \in SolarStates,
          ls \in LoadStates :
          \E r \in {AsyncUpdateData(now + elapsed, gs, ss, ls)} :
              /\ now' = now + elapsed
              /\ data' = r.data
              /\ last_reset' = r.last_reset
              /\ last' = r.last
    /\ ticks' = ticks + 1
    /\ UNCHANGED <<pc, config, power_history, backfill>>

\* _async_update_data, run by the periodic scheduler once the setup is over
Tick ==
    /\ pc = "live"
    /\ Len(timestamps) + ticks < MaxSamples
    /\ \E elapsed \in Elapsed, gs \in GridStates, ss \in SolarStates,
          ls \in LoadStates :
          \E r \in {AsyncUpdateData(now + elapsed, gs, ss, ls)} :
              /\ now' = now + elapsed
              /\ data' = r.data
              /\ last_reset' = r.last_reset
              /\ last' = r.last
    /\ ticks' = ticks + 1
    /\ UNCHANGED <<pc, config, power_history, backfill>>

Next ==
    \/ LoadHistoricalData
    \/ BackfillStep
    \/ Tick

Spec == Init /\ [][Next]_vars

----------------------------------------------------------------------------
(* Specification SpecFn: the pure functions of the engine applied to       *)
(* inputs drawn from bounded sets.  A state is one coordinator (clock,     *)
(* configuration, ledger totals); an action calls one function on the   *)
(* drawn inputs and records the call in last.                               *)

DayTimes ==
    {Time(0, 0), Time(9, 59), Time(10, 0), Time(12, 59), Time(13, 0),
     Time(16, 59), Time(17, 0), Time(19, 59), Time(20, 0), Time(23, 59)}

FnYears == {2023, 2024, 2025, 2026}

\* clock values for the calendar functions: first, middle and last days
CalendarTimes ==
    {Val(DateTime(y, m, d, 13, 30)) :
        <<y, m, d>> \in {<<y, m, d>> \in FnYears \X (1..12) \X {1, 15, 28, 30, 31} :
                            d <= DaysInMonth(y, m)}}

\* clock values for the period classifier and the rate table
RateDates ==
    {<<y, m, d>> \in FnYears \X {1, 5, 6, 9, 10, 12} \X {5, 6, 7} : TRUE}

PeriodTimes ==
    {Val(DateTime(dt[1], dt[2], dt[3], 0, 0)) + t : dt \in RateDates, t \in DayTimes}

TierTimes ==
    {Val(DateTime(y, m, 6, 13, 30)) : y \in FnYears, m \in {1, 6, 7, 10}}

\* ledger totals around every tier threshold, in energy units
FnDelivered ==
    {0} \cup UNION {{l * KwhScale - KwhScale, l * KwhScale, l * KwhScale + 1,
                     l * KwhScale + KwhScale} :
                        l \in {350, 500, 700, 1000, 1050, 1500, 2100, 3000}}

FnReceived == {0, KwhScale}

FnLedger(delivered, received) ==
    [InitEnergyData EXCEPT ![ATTR_TOTAL_KWH_DELIVERED] = delivered,
                           ![Delivered("base")] = delivered,
                           ![ATTR_TOTAL_KWH_RECEIVED] = received,
                           ![Received("base")] = received]

\* clock values for the spike filter
SpikeTimes == {Val(DateTime(2024, 6, 28, 13, 0))}

\* self._power_history before a call: no entry, or the accepted values of the
\* grid entity or of the rows without entity id
SpikeHistories ==
    {<<>>}
    \cup {[k \in {e} |-> h] :
             e \in {grid_entity_id, "unknown"},
             h \in {<<>>, <<2400>>, <<-2400>>, <<400>>, <<2400, 2400, 2400>>,
                    <<2400, 2400, 2400, 2400, 2400,
                      2400, 2400, 2400, 2400, 4800>>}}

\* sample values below, on and above the ceiling
SpikeValues ==
    {0, 400, 480, 2000, 2400, -2400, 4800, 5000, -5000, 5100, -5100, 21000}

\* clock values for the reset block: the billing-day midnights and the day
\* before a billing day that February does not have
ResetTimes ==
    {Val(DateTime(2024, 7, 1, 0, 0)), Val(DateTime(2024, 7, 15, 0, 0)),
     Val(DateTime(2024, 7, 31, 0, 1)), Val(DateTime(2025, 3, 1, 0, 0))}

\* the ledger after one live tick of 6000 W on every configured sensor
TickedLedger ==
    Integrate(InitEnergyData, now, Some(6000),
              IF solar_entity_id # "" THEN Some(6000) ELSE None,
              IF load_entity_id # "" THEN Some(6000) ELSE None)

\* first timestamps of a run of samples: ten minutes before and ten minutes
\* after the start of the summer high-peak window on a Friday
SpanTimes == {Val(DateTime(2024, 6, 28, 12, 50)), Val(DateTime(2024, 6, 28, 13, 10))}

\* gaps between the timestamps that cut one span of 15 or 10 minutes
SpanSplits == {<<15>>, <<10, 5>>, <<5, 10>>, <<5, 5, 5>>, <<10>>, <<5, 5>>}

\* constant power of the samples of a span
SpanPowers == {2400, -2400, 1200}

\* clock values of a tick that reads 0 W: the minute after the tick that
\* filled the ledger, in the same month and in the next
ZeroTimes == {Val(DateTime(2024, 6, 30, 23, 59)), Val(DateTime(2024, 7, 1, 0, 0))}

\* the ledger after one live tick at 2024-06-30 23:58 of 6000 W on the grid
\* sensor and on the solar sensor if configured, with the load reading given
ZeroLedger(load_power) ==
    Integrate(InitEnergyData, Val(DateTime(2024, 6, 30, 23, 58)), Some(6000),
              IF solar_entity_id # "" THEN Some(6000) ELSE None,
              load_power)

\* clock values and configuration values for lookups with keys that the
\* tables do not have; entry.data holds whatever was stored
KeyTimes == {Val(DateTime(2023, 7, 6, 13, 30)), Val(DateTime(2024, 7, 6, 13, 30))}
KeyPlans == RATE_PLAN_OPTIONS \cup {"tiered"}
KeyZones == ZONE_OPTIONS \cup {"zone_3"}
KeyBillingPeriods == BILLING_PERIOD_OPTIONS \cup {"quarterly"}
KeyPeriods == PeriodSet \cup {"mid_peak"}

\* no history fetched
NoHistory ==
    /\ grid_history = <<>>
    /\ solar_history = <<>>
    /\ load_history = <<>>
    /\ timestamps = <<>>

\* dt_util.now() at the end of a backfill pass
SourceTimes == {Val(DateTime(2024, 6, 28, 13, 20))}

\* the places in time of the records of a series: Friday 28 June 2024, 13:00,
\* 13:05 and 13:10
SourceStamps ==
    <<Val(DateTime(2024, 6, 28, 13, 0)), Val(DateTime(2024, 6, 28, 13, 5)),
      Val(DateTime(2024, 6, 28, 13, 10))>>
GridStamps == {<<1>>, <<1, 3>>, <<1, 2, 3>>}
SolarStamps == {<<1>>, <<2>>, <<1, 3>>, <<1, 2, 3>>}
SolarValues == {1200, 400}

\* the series of one entity with one constant value at the given places;
\* statistics rows carry no entity id
SeriesAt(fmt, entity_id, at, value) ==
    [i \in 1..Len(at) |->
        Record(fmt, SourceStamps[at[i]], Some(value),
               IF fmt = "stats" THEN "" ELSE entity_id)]

NoCall == [op |-> "none", period |-> "", tier |-> "", result |-> None]

InitFn ==
    /\ pc = "fn"
    /\ last_reset = 0
    /\ power_history \in SpikeHistories
    /\ idx = 0
    /\ ticks = 0
    /\ last = NoCall
    /\ \/ \* calendar cases
          /\ NoHistory
          /\ power_history = <<>>
          /\ solar_entity_id = ""
          /\ load_entity_id = ""
          /\ now \in CalendarTimes
          /\ billing_day \in {1, 15, 16, 28, 29, 30, 31}
          /\ rate_plan = RATE_PLAN_TIME_OF_USE
          /\ zone = ZONE_1
          /\ billing_period = BILLING_MONTHLY
          /\ data = FnLedger(0, 0)
       \/ \* time-of-use cases
          /\ NoHistory
          /\ power_history = <<>>
          /\ solar_entity_id = ""
          /\ load_entity_id = ""
          /\ now \in PeriodTimes
          /\ billing_day = 1
          /\ rate_plan = RATE_PLAN_TIME_OF_USE
          /\ zone = ZONE_1
          /\ billing_period = BILLING_MONTHLY
          /\ data = FnLedger(0, 0)
       \/ \* tier cases
          /\ NoHistory
          /\ power_history = <<>>
          /\ solar_entity_id = ""
          /\ load_entity_id = ""
          /\ now \in TierTimes
          /\ billing_day = 1
          /\ rate_plan = RATE_PLAN_STANDARD
          /\ zone \in ZONE_OPTIONS
          /\ billing_period \in BILLING_PERIOD_OPTIONS
          /\ \E delivered \in FnDelivered, received \in FnReceived :
                data = FnLedger(delivered, received)
       \/ \* spike cases
          /\ NoHistory
          /\ now \in SpikeTimes
          /\ billing_day = 1
          /\ rate_plan = RATE_PLAN_TIME_OF_USE
          /\ zone = ZONE_1
          /\ billing_period = BILLING_MONTHLY
          /\ solar_entity_id = ""
          /\ load_entity_id = ""
          /\ data = FnLedger(0, 0)
       \/ \* reset cases: the ledger after one tick of the cycle that ends
          /\ NoHistory
          /\ power_history = <<>>
          /\ now \in ResetTimes
          /\ billing_day \in {1, 15, 31}
          /\ rate_plan \in RATE_PLAN_OPTIONS
          /\ zone = ZONE_1
          /\ billing_period = BILLING_MONTHLY
          /\ solar_entity_id \in {"", "sensor.solar"}
          /\ load_entity_id \in {"", "sensor.load"}
          /\ data = TickedLedger
       \/ \* span cases
          /\ NoHistory
          /\ power_history = <<>>
          /\ now \in SpanTimes
          /\ billing_day = 1
          /\ rate_plan \in RATE_PLAN_OPTIONS
          /\ zone = ZONE_1
          /\ billing_period = BILLING_MONTHLY
          /\ solar_entity_id \in {"", "sensor.solar"}
          /\ load_entity_id \in {"", "sensor.load"}
          /\ data = FnLedger(0, 0)
       \/ \* zero-energy cases
          /\ NoHistory
          /\ power_history = <<>>
          /\ now \in ZeroTimes
          /\ billing_day = 1
          /\ rate_plan \in RATE_PLAN_OPTIONS
          /\ zone = ZONE_1
          /\ billing_period = BILLING_MONTHLY
          /\ solar_entity_id \in {"", "sensor.solar"}
          /\ load_entity_id \in {"", "sensor.load"}
          /\ \E load_power \in {None} \cup {Some(6000) : x \in {load_entity_id} \ {""}} :
                data = ZeroLedger(load_power)
       \/ \* key cases
          /\ NoHistory
          /\ power_history = <<>>
          /\ now \in KeyTimes
          /\ billing_day = 1
          /\ rate_plan \in KeyPlans
          /\ zone \in KeyZones
          /\ billing_period \in KeyBillingPeriods
          /\ solar_entity_id = ""
          /\ load_entity_id = ""
          /\ \E delivered \in {0, 351 * KwhScale} : data = FnLedger(delivered, 0)
       \/ \* source cases: the histories as fetched, the timestamps as merged
          /\ power_history = <<>>
          /\ now \in SourceTimes
          /\ billing_day = 1
          /\ rate_plan = RATE_PLAN_TIME_OF_USE
          /\ zone = ZONE_1
          /\ billing_period = BILLING_MONTHLY
          /\ load_entity_id = ""
          /\ load_history = <<>>
          /\ \E fmt \in {"stats", "state"} :
                /\ \E at \in GridStamps :
                      grid_history = SeriesAt(fmt, grid_entity_id, at, 2400)
                /\ \/ /\ solar_entity_id = ""
                      /\ solar_history = <<>>
                   \/ /\ solar_entity_id = "sensor.solar"
                      /\ \E at \in SolarStamps, v \in SolarValues :
                            solar_history = SeriesAt(fmt, solar_entity_id, at, v)
          /\ timestamps = GetSortedTimestamps(grid_history, solar_history,
                                              load_history)
          /\ data = InitEnergyData

FnFrame ==
    UNCHANGED <<now, pc, config, data, last_reset, power_history, backfill, ticks>>

CallGetBillingCycleStart ==
    /\ pc = "fn"
    /\ last = NoCall
    /\ last' = [op |-> "_get_billing_cycle_start", period |-> "", tier |-> "",
                result |-> GetBillingCycleStart(now)]
    /\ FnFrame

CallGetNextResetTime ==
    /\ pc = "fn"
    /\ last = NoCall
    /\ last' = [op |-> "_get_next_reset_time", period |-> "", tier |-> "",
                result |-> GetNextResetTime(now)]
    /\ FnFrame

CallGetTimePeriod ==
    /\ pc = "fn"
    /\ last = NoCall
    /\ last' = [op |-> "_get_time_period", period |-> "", tier |-> "",
                result |-> Some(GetTimePeriod(now))]
    /\ FnFrame

CallGetRate ==
    /\ pc = "fn"
    /\ last = NoCall
    /\ rate_plan \in RATE_PLAN_OPTIONS
    /\ zone \in ZONE_OPTIONS
    /\ billing_period \in BILLING_PERIOD_OPTIONS
    /\ \E period \in PeriodSet :
          last' = [op |-> "_get_rate", period |-> period,
                   tier |-> IF rate_plan = RATE_PLAN_TIME_OF_USE THEN ""
                            ELSE TierOf(data[ATTR_TOTAL_KWH_DELIVERED]
                                        - data[ATTR_TOTAL_KWH_RECEIVED]),
                   result |-> Some(GetRate(data, now, period))]
    /\ FnFrame

CallResetEnergyData ==
    /\ pc = "fn"
    /\ last = NoCall
    /\ now \in ResetTimes
    /\ \E r \in {ResetEnergyData(now)} :
          /\ data' = r.data
          /\ last_reset' = r.last_reset
          /\ last' = [op |-> IF r.raised THEN "reset_error" ELSE "reset",
                      period |-> "", tier |-> "",
                      result |-> GetBillingCycleStart(now)]
    /\ UNCHANGED <<now, pc, config, power_history, backfill, ticks>>

\* result: the value, the verdict and the history of the entity before the call
CallIsSpike ==
    /\ pc = "fn"
    /\ last = NoCall
    /\ now \in SpikeTimes
    /\ \E power_value \in SpikeValues, entity_id \in {grid_entity_id, "unknown"} :
       \E verdict \in {IsSpike(power_history, power_value, entity_id)} :
          /\ power_history' = verdict.power_history
          /\ last' = [op |-> "_is_spike", period |-> entity_id, tier |-> "",
                      result |-> <<power_value, verdict.spike,
                                   HistoryOf(power_history, entity_id)>>]
    /\ UNCHANGED <<now, pc, config, data, last_reset, backfill, ticks>>

\* result: the value of the record, the value returned and the history of the
\* record's entity before the call
CallGetPowerAtTimestamp ==
    /\ pc = "fn"
    /\ last = NoCall
    /\ now \in SpikeTimes
    /\ \E fmt \in {"stats", "state"}, power_value \in SpikeValues :
       \E entry \in {Record(fmt, now, Some(power_value),
                            IF fmt = "stats" THEN "" ELSE grid_entity_id)} :
       \E r \in {GetPowerAtTimestamp(power_history, <<entry>>, now)} :
          /\ power_history' = r.power_history
          /\ last' = [op |-> "_get_power_at_timestamp",
                      period |-> EntityIdOf(entry), tier |-> "",
                      result |-> <<power_value, r.value,
                                   HistoryOf(power_history, EntityIdOf(entry))>>]
    /\ UNCHANGED <<now, pc, config, data, last_reset, backfill, ticks>>

\* the backfill loop over samples of one constant power on every configured
\* sensor; result: the gaps between the samples and the power
CallIntegrateSpans ==
    /\ pc = "fn"
    /\ last = NoCall
    /\ now \in SpanTimes
    /\ \E durations \in SpanSplits, power \in SpanPowers :
       \E d \in {IntegrateSpans(data, now, durations, Some(power),
                                IF solar_entity_id # "" THEN Some(Abs(power)) ELSE None,
                                IF load_entity_id # "" THEN Some(Abs(power)) ELSE None)} :
          /\ data' = d
          /\ last' = [op |-> "integrate_spans", period |-> "", tier |-> "",
                      result |-> <<durations, power>>]
    /\ UNCHANGED <<now, pc, config, last_reset, power_history, backfill, ticks>>

\* a live tick that reads 0 W on the grid sensor and 0 W or nothing on the
\* others; result: the ledger before the tick and the load reading
CallZeroTick ==
    /\ pc = "fn"
    /\ last = NoCall
    /\ now \in ZeroTimes
    /\ \E ss \in {Unavailable, Number(0)}, ls \in {Unavailable, Number(0)} :
       \E r \in {AsyncUpdateData(now, Number(0), ss, ls)} :
          /\ data' = r.data
          /\ last_reset' = r.last_reset
          /\ last' = [op |-> "zero_step", period |-> r.last.op, tier |-> "",
                      result |-> <<data, r.last.load>>]
    /\ UNCHANGED <<now, pc, config, power_history, backfill, ticks>>

\* one iteration of the backfill loop that integrates no energy: a gap of 0
\* minutes, or 0 W on every sensor; result: the ledger before the iteration
CallZeroSample ==
    /\ pc = "fn"
    /\ last = NoCall
    /\ now \in ZeroTimes
    /\ \E step \in {<<0, 6000>>, <<0, 0>>, <<5, 0>>} :
       \E d \in {IntegrateSample(data, now, step[1], Some(step[2]),
                                 IF solar_entity_id # "" THEN Some(step[2]) ELSE None,
                                 IF load_entity_id # "" THEN Some(step[2]) ELSE None)} :
          /\ data' = d
          /\ last' = [op |-> "zero_step", period |-> "sample", tier |-> "",
                      result |-> <<data, None>>]
    /\ UNCHANGED <<now, pc, config, last_reset, power_history, backfill, ticks>>

\* _get_rate with the stored configuration and any period key
CallGetRateOutcome ==
    /\ pc = "fn"
    /\ last = NoCall
    /\ now \in KeyTimes
    /\ \E period \in KeyPeriods :
          last' = [op |-> "_get_rate_outcome", period |-> period, tier |-> "",
                   result |-> GetRateOutcome(data, now, period)]
    /\ FnFrame

\* the loop of _process_historical_data from iteration i on, with
\* self.data = d and self._power_history = ph: the ledger, the spike
\* histories and, for every iteration, the duration and the values read
RECURSIVE ProcessTimestamps(_, _, _, _)
ProcessTimestamps(d, ph, i, steps) ==
    IF i > Len(timestamps)
    THEN [data |-> d, power_history |-> ph, steps |-> steps]
    ELSE CHOOSE rest \in
            {ProcessTimestamps(r.data, r.power_history, i + 1,
                               Append(steps, [ts |-> timestamps[i],
                                              minutes |-> r.minutes,
                                              grid |-> r.grid,
                                              solar |-> r.solar,
                                              load |-> r.load,
                                              data |-> r.data])) :
             r \in {ProcessTimestamp(d, ph, i)}} : TRUE

\* _process_historical_data on the fetched histories; result: the iterations
CallProcessHistoricalData ==
    /\ pc = "fn"
    /\ last = NoCall
    /\ now \in SourceTimes
    /\ timestamps # <<>>
    /\ \E r \in {ProcessTimestamps(data, power_history, 1, <<>>)} :
          /\ data' = UpdateNetValuesAndCosts(r.data, now)
          /\ power_history' = r.power_history
          /\ last' = [op |-> "_process_historical_data", period |-> "",
                      tier |-> "", result |-> r.steps]
    /\ UNCHANGED <<now, pc, config, last_reset, backfill, ticks>>

NextFn ==
    \/ CallProcessHistoricalData
    \/ CallGetRateOutcome
    \/ CallZeroTick
    \/ CallZeroSample
    \/ CallIntegrateSpans
    \/ CallIsSpike
    \/ CallGetPowerAtTimestamp
    \/ CallResetEnergyData
    \/ CallGetBillingCycleStart
    \/ CallGetNextResetTime
    \/ CallGetTimePeriod
    \/ CallGetRate

SpecFn == InitFn /\ [][NextFn]_vars

----------------------------------------------------------------------------
(* Specification SpecSustained: one source that reports the same value at  *)
(* every sample of a backfill pass.  last holds the source, the value and   *)
(* whether the spike filter has accepted it; idx counts the samples modulo *)
(* MaxSustained + 1, so the pass never runs out of samples.                 *)

InitSustained ==
    /\ pc = "sustained"
    /\ now \in SpikeTimes
    /\ billing_day = 1
    /\ rate_plan = RATE_PLAN_TIME_OF_USE
    /\ zone = ZONE_1
    /\ billing_period = BILLING_MONTHLY
    /\ solar_entity_id = ""
    /\ load_entity_id = ""
    /\ data = FnLedger(0, 0)
    /\ last_reset = 0
    /\ power_history \in SpikeHistories
    /\ NoHistory
    /\ idx = 0
    /\ ticks = 0
    /\ \E power_value \in SpikeValues, entity_id \in {grid_entity_id, "unknown"} :
          last = [op |-> "sustained", period |-> entity_id, tier |-> "",
                  result |-> <<power_value, FALSE>>]

\* the next sample of the source: _is_spike on the same value once more
SampleSustained ==
    /\ pc = "sustained"
    /\ \E verdict \in {IsSpike(power_history, last.result[1], last.period)} :
          /\ power_history' = verdict.power_history
          /\ last' = [last EXCEPT !.result =
                         <<last.result[1], last.result[2] \/ ~verdict.spike>>]
    /\ idx' = (idx + 1) % (MaxSustained + 1)
    /\ UNCHANGED <<now, pc, config, data, last_reset, grid_history,
                   solar_history, load_history, timestamps, ticks>>

NextSustained == SampleSustained

\* the pass goes on to the next sample as long as there is one
SpecSustained ==
    InitSustained /\ [][NextSustained]_vars /\ WF_vars(SampleSustained)

----------------------------------------------------------------------------
(* Claims on the pure functions, checked under SpecFn *)

\* the date the claim names: day billing_day of this month when the clock's
\* day has reached it, of the previous month otherwise
ClaimedCycleMonth(nw) ==
    IF Day(nw) >= billing_day THEN <<Year(nw), Month(nw)>>
    ELSE IF Month(nw) = 1 THEN <<Year(nw) - 1, 12>>
    ELSE <<Year(nw), Month(nw) - 1>>

ClaimedCycleStartAt(nw) ==
    DaysFromCivil(ClaimedCycleMonth(nw)[1], ClaimedCycleMonth(nw)[2],
                  billing_day) * 1440

ClaimedCycleStart == ClaimedCycleStartAt(now)

\* C2: for every billing day and clock value, _get_billing_cycle_start returns
\* local midnight of the billing day of the current month (clock day >= billing
\* day) or of the previous month (otherwise), and the result is never after now.
C2_CycleStartReturned ==
    last.op = "_get_billing_cycle_start" =>
        /\ last.result = Some(ClaimedCycleStart)
        /\ ClaimedCycleStart <= now

\* C3: _get_time_period returns base for every Saturday or Sunday timestamp,
\* whatever the month and the time of day.
C3_WeekendIsBase ==
    (last.op = "_get_time_period" /\ Weekday(now) \in {5, 6}) =>
        last.result = Some("base")

C3_Witness ==
    /\ last.op = "_get_time_period"
    /\ Weekday(now) = 5
    /\ Month(now) = 6
    /\ TimeOfDay(now) = 13 * 60
    /\ last.result = Some("base")

\* the season table of the claim, with half-open intervals in minutes of the day
ClaimedWeekdayPeriod ==
    LET t == TimeOfDay(now)
    IN  IF Month(now) \in {6, 7, 8, 9}
        THEN IF 780 <= t /\ t < 1020 THEN "high_peak"
             ELSE IF (600 <= t /\ t < 780) \/ (1020 <= t /\ t < 1200)
             THEN "low_peak"
             ELSE "base"
        ELSE IF 600 <= t /\ t < 1200 THEN "low_peak" ELSE "base"

\* C4: for every Monday-to-Friday timestamp _get_time_period follows the season
\* table with half-open intervals, and high_peak is never returned outside
\* June..September.
C4_WeekdaySeasonTable ==
    (last.op = "_get_time_period" /\ Weekday(now) \in 0..4) =>
        /\ last.result = Some(ClaimedWeekdayPeriod)
        /\ (Month(now) \notin {6, 7, 8, 9} => last.result # Some("high_peak"))

C4_Witness ==
    /\ last.op = "_get_time_period"
    /\ Weekday(now) \in 0..4
    /\ Month(now) = 9
    /\ TimeOfDay(now) = 17 * 60
    /\ last.result = Some("low_peak")

ClaimedConsumption ==
    data[ATTR_TOTAL_KWH_DELIVERED] - data[ATTR_TOTAL_KWH_RECEIVED]

ClaimedTier ==
    LET c == ClaimedConsumption
        limits == TIER_LIMITS[zone][billing_period]
    IN  IF c <= limits.tier1_limit THEN "tier1"
        ELSE IF c <= limits.tier2_limit THEN "tier2"
        ELSE "tier3"

\* C5: under the standard plan the tier used by _get_rate follows from the net
\* consumption and the (zone, billing period) thresholds, a value exactly on a
\* threshold belonging to the lower tier (zone_1/monthly: 349 and 350 kWh tier1,
\* 351 and 1050 kWh tier2, 1051 kWh tier3).
C5_TierFromConsumption ==
    (last.op = "_get_rate" /\ rate_plan = RATE_PLAN_STANDARD) =>
        /\ last.tier = ClaimedTier
        /\ (zone = ZONE_1 /\ billing_period = BILLING_MONTHLY) =>
              /\ ClaimedConsumption \in {349 * KwhScale, 350 * KwhScale}
                    => last.tier = "tier1"
              /\ ClaimedConsumption \in {351 * KwhScale, 1050 * KwhScale}
                    => last.tier = "tier2"
              /\ ClaimedConsumption = 1051 * KwhScale => last.tier = "tier3"

C5_Witness ==
    /\ last.op = "_get_rate"
    /\ rate_plan = RATE_PLAN_STANDARD
    /\ zone = ZONE_1
    /\ billing_period = BILLING_MONTHLY
    /\ ClaimedConsumption = 350 * KwhScale
    /\ last.tier = "tier1"

\* the price row the claim names for the clock's year and month
ClaimedRow ==
    LET y == Year(now)
        m == Month(now)
        season == IF m \in {6, 7, 8, 9} THEN "summer" ELSE "winter"
    IN  IF rate_plan = RATE_PLAN_TIME_OF_USE
        THEN CASE y = 2024 -> TOU_RATES_2024[m]
               [] y >= 2025 -> TOU_RATES_2025[m]
               [] OTHER -> TOU_RATES[season]
        ELSE CASE y = 2024 -> STANDARD_RATES_2024[m]
               [] y >= 2025 -> STANDARD_RATES_2025[m]
               [] OTHER -> STANDARD_RATES[season]

\* C6: for both plans _get_rate takes the price from the row of the timestamp's
\* year and month when the year has a table (2024, 2025), from the 2025 row of
\* the same month for a later year, and from the legacy two-season table
\* (summer = June..September) for a year before 2024.
C6_RowByYear ==
    last.op = "_get_rate" =>
        last.result = Some(ClaimedRow[IF rate_plan = RATE_PLAN_TIME_OF_USE
                                      THEN last.period ELSE last.tier])

C6_Witness ==
    /\ last.op = "_get_rate"
    /\ Year(now) = 2026
    /\ Month(now) = 10
    /\ rate_plan = RATE_PLAN_TIME_OF_USE
    /\ last.period = "base"
    /\ last.result = Some(21930)

----------------------------------------------------------------------------
(* Claims on the coordinator, checked under Spec *)

\* billing-day midnight of the month after the month of the cycle start lr
BoundaryAfter(lr) ==
    DaysFromCivil(IF Month(lr) = 12 THEN Year(lr) + 1 ELSE Year(lr),
                  IF Month(lr) = 12 THEN 1 ELSE Month(lr) + 1,
                  billing_day) * 1440

\* P watts over m minutes, in fiftieths of a kWh: P * m / 60 / 1000 * 50
ClaimedEnergy(P, m) == (P * m) \div 1200

\* C1: a tick that runs at or past the billing-day midnight following the
\* stored last_reset replaces the ledger by a zero ledger before integrating
\* its sample and advances last_reset to the new cycle start, so nothing of
\* the old cycle is carried over (billing days that exist in every month).
C1_ResetAtRollover ==
    [][(/\ ticks' = ticks + 1
        /\ billing_day <= 28
        /\ now' >= BoundaryAfter(last_reset))
       => /\ last_reset' = ClaimedCycleStartAt(now')
          /\ data'[ATTR_TOTAL_KWH_DELIVERED] + data'[ATTR_TOTAL_KWH_RECEIVED]
                = IF last'.grid = None THEN 0
                  ELSE Abs(ClaimedEnergy(Val(last'.grid), 1))]_vars

\* C7: an accepted sample of P watts over m minutes (m = 1 for a live tick)
\* adds e = P * m / 60 / 1000 kWh to the delivered field of its period and to
\* total delivered when e > 0, and |e| to the received field of its period and
\* to total received otherwise; no other delivered or received field changes.
C7_SampleEnergy ==
    [][last'.op \in {"tick", "backfill"}
       => LET before == IF last'.reset THEN InitEnergyData ELSE data
              e == ClaimedEnergy(Val(last'.grid), last'.minutes)
              p == GetTimePeriod(last'.ts)
              del == IF e > 0 THEN e ELSE 0
              rec == IF e > 0 THEN 0 ELSE -e
          IN  /\ last'.op = "tick" => last'.minutes = 1
              /\ data'[Delivered(p)] = before[Delivered(p)] + del
              /\ data'[ATTR_TOTAL_KWH_DELIVERED]
                    = before[ATTR_TOTAL_KWH_DELIVERED] + del
              /\ data'[Received(p)] = before[Received(p)] + rec
              /\ data'[ATTR_TOTAL_KWH_RECEIVED]
                    = before[ATTR_TOTAL_KWH_RECEIVED] + rec
              /\ \A q \in PeriodSet \ {p} :
                    /\ data'[Delivered(q)] = before[Delivered(q)]
                    /\ data'[Received(q)] = before[Received(q)]]_vars

\* 6000 W for one tick on a July weekday at 14:00: 0.1 kWh in high_peak delivered
C7_Witness ==
    /\ last.op = "tick"
    /\ last.grid = Some(6000)
    /\ Month(last.ts) = 7
    /\ Weekday(last.ts) \in 0..4
    /\ TimeOfDay(last.ts) = 14 * 60
    /\ data[Delivered("high_peak")] = 5
    /\ data[Received("high_peak")] = 0

\* C8: after every cost recomputation, for every period the cost is net * rate
\* of that period when net = delivered - received is > 0, and net * the fixed
\* credit rate otherwise.
C8_PeriodCost ==
    last.updated =>
        \A p \in PeriodSet :
            LET net == data[Delivered(p)] - data[Received(p)]
            IN  data[Cost(p)] = IF net > 0 THEN net * GetRate(data, now, p)
                                ELSE net * 19740

C8_Witness ==
    /\ last.updated
    /\ rate_plan = RATE_PLAN_TIME_OF_USE
    /\ \E p, q \in PeriodSet :
          /\ data[Delivered(p)] - data[Received(p)] > 0
          /\ data[Cost(p)] > 0
          /\ data[Delivered(q)] - data[Received(q)] < 0
          /\ data[Cost(q)] < 0

NetConsistent ==
    /\ \A p \in PeriodSet : data[Net(p)] = data[Delivered(p)] - data[Received(p)]
    /\ data[ATTR_TOTAL_KWH_NET]
          = data[ATTR_TOTAL_KWH_DELIVERED] - data[ATTR_TOTAL_KWH_RECEIVED]

\* C9: after every accepted live tick, whether or not a solar or load sensor is
\* configured or readable, and after the backfill pass, every net field equals
\* delivered - received of the exposed ledger.
C9_NetAfterEverySample ==
    (\/ last.op = "tick"
     \/ (last.op \in {"backfill", "backfill_skipped"} /\ pc = "live"))
    => NetConsistent

\* C10: every delivered, received, generated and consumed field of the ledger
\* (per period and total) is >= 0 in every reachable state.
C10_FlowsNonNegative ==
    \A k \in DOMAIN data :
        k \in UNION {{Delivered(p), Received(p), Generated(p), Consumed(p)} :
                        p \in PeriodSet}
              \cup {ATTR_TOTAL_KWH_DELIVERED, ATTR_TOTAL_KWH_RECEIVED,
                    ATTR_TOTAL_KWH_GENERATED, ATTR_TOTAL_KWH_CONSUMED}
        => data[k] >= 0

\* the registry states that yield no grid reading
MissingStates == {Absent, Unknown, Unavailable, Text}

\* C11: in every state the coordinator can be in once live, a tick whose grid
\* entity is absent, unknown, unavailable or not a number leaves every ledger
\* field as it was and returns that ledger, whatever the solar and load
\* readings are.
C11_MissingGridSkipsTick ==
    pc = "live" =>
        \A elapsed \in Elapsed, gs \in MissingStates, ss \in SolarStates,
           ls \in LoadStates :
            \E r \in {AsyncUpdateData(now + elapsed, gs, ss, ls)} :
                /\ r.data = data
                /\ r.last.grid = None
                /\ r.last.op # "tick"

\* a skipped tick with solar and load readings at hand and a ledger that
\* already holds energy
C11_Witness ==
    /\ last.op = "tick_skipped"
    /\ last.solar # None
    /\ last.load # None
    /\ data[ATTR_TOTAL_KWH_DELIVERED] > 0

----------------------------------------------------------------------------
(* Claims on the reset block and the spike filter, checked under SpecFn *)

C13_CeilingAlwaysSpike ==
    (last.op = "_is_spike" /\ Abs(last.result[1]) > 5000) =>
        /\ last.result[2] = TRUE
        /\ HistoryOf(power_history, last.period) = last.result[3]

\* -5100 W offered to a full history of accepted values
C13_Witness ==
    /\ last.op = "_is_spike"
    /\ last.result[1] = -5100
    /\ last.result[2] = TRUE
    /\ Len(last.result[3]) = 10
    /\ HistoryOf(power_history, last.period) = last.result[3]

\* C14: when the sample of a source is judged a spike during backfill, the
\* value used is the last value accepted before for that source, and 0 only
\* when none has been accepted yet.
C14_SpikeUsesLastAccepted ==
    (/\ last.op = "_get_power_at_timestamp"
     /\ IsSpike([k \in {last.period} |-> last.result[3]],
                last.result[1], last.period).spike)
    => last.result[2] = IF last.result[3] = <<>> THEN Some(0)
                        ELSE Some(last.result[3][Len(last.result[3])])

\* C18: a rate lookup with an unrecognized rate plan, zone, billing period or
\* period key ends in an error; it never returns a price.
C18_UnrecognizedKeyRaises ==
    (/\ last.op = "_get_rate_outcome"
     /\ \/ rate_plan \notin RATE_PLAN_OPTIONS
        \/ zone \notin ZONE_OPTIONS
        \/ billing_period \notin BILLING_PERIOD_OPTIONS
        \/ last.period \notin PeriodSet)
    => last.result = Raised

\* C18, the case it names: a plan that is neither standard nor time_of_use,
\* every other key recognized, is not given a price
C18_UnrecognizedPlanRaises ==
    (/\ last.op = "_get_rate_outcome"
     /\ rate_plan \notin RATE_PLAN_OPTIONS
     /\ zone \in ZONE_OPTIONS
     /\ billing_period \in BILLING_PERIOD_OPTIONS
     /\ last.period \in PeriodSet)
    => last.result = Raised

\* the fields that hold energy: per period and in total, for every direction
PeriodEnergyKeys ==
    {k \in DOMAIN data :
        \E p \in PeriodSet : k \in {Delivered(p), Received(p), Generated(p), Consumed(p)}}

TotalEnergyKeys ==
    {k \in DOMAIN data :
        k \in {ATTR_TOTAL_KWH_DELIVERED, ATTR_TOTAL_KWH_RECEIVED,
               ATTR_TOTAL_KWH_GENERATED, ATTR_TOTAL_KWH_CONSUMED}}

EnergyKeys == PeriodEnergyKeys \cup TotalEnergyKeys

RECURSIVE SpanLength(_)
SpanLength(durations) ==
    IF durations = <<>> THEN 0
    ELSE Head(durations) + SpanLength(Tail(durations))

\* the timestamps of the samples after the first
RECURSIVE LaterStarts(_, _)
LaterStarts(timestamp, durations) ==
    IF Len(durations) <= 1 THEN {}
    ELSE {timestamp + Head(durations)}
         \cup LaterStarts(timestamp + Head(durations), Tail(durations))

\* the ledger the same span leaves when it is integrated in one piece
WholeSpan ==
    IntegrateSpans(FnLedger(0, 0), now, <<SpanLength(last.result[1])>>,
                   Some(last.result[2]),
                   IF solar_entity_id # "" THEN Some(Abs(last.result[2])) ELSE None,
                   IF load_entity_id # "" THEN Some(Abs(last.result[2])) ELSE None)

\* C16 as stated: a span of constant power integrated as N consecutive
\* sub-intervals leaves every per-period and total energy field as the span
\* integrated in one piece does.
C16_LinearInTime ==
    last.op = "integrate_spans"
    => \A k \in EnergyKeys : data[k] = WholeSpan[k]

\* C16 amended: a span of constant power integrated as N consecutive
\* sub-intervals leaves every total energy field as the span integrated in one
\* piece does, and every per-period energy field too when every sub-interval
\* starts in the time-of-use period in which the span starts.
C16_LinearInTimeAmended ==
    last.op = "integrate_spans"
    => /\ \A k \in TotalEnergyKeys : data[k] = WholeSpan[k]
       /\ (\A t \in LaterStarts(now, last.result[1]) :
               GetTimePeriod(t) = GetTimePeriod(now))
          => \A k \in EnergyKeys : data[k] = WholeSpan[k]

C16_Witness ==
    /\ last.op = "integrate_spans"
    /\ last.result = <<(<<5, 5, 5>>), 2400>>
    /\ GetTimePeriod(now) = "high_peak"
    /\ data[Delivered("high_peak")] = ClaimedEnergy(2400, 15)
    /\ data[ATTR_TOTAL_KWH_DELIVERED] = ClaimedEnergy(2400, 15)
    /\ data[ATTR_TOTAL_KWH_DELIVERED] > 0

\* the fields that hold a net energy or the cost of one
NetAndCostKeys ==
    {Net(p) : p \in PeriodSet} \cup {Cost(p) : p \in PeriodSet}
    \cup {ATTR_TOTAL_KWH_NET}

\* C17 as stated: a step that integrates zero energy leaves every field of the
\* ledger unchanged, the per-period net and cost fields included, at whatever
\* time the step occurs.
C17_ZeroStepChangesNothing ==
    last.op = "zero_step" => data = last.result[1]

\* C17 amended: a step that integrates zero energy leaves every energy,
\* savings and load-cost field unchanged; it leaves the net and cost fields
\* unchanged too when it reads no load value, or when these fields already
\* held delivered - received and its price at the rates in force at the time
\* of the step.  Otherwise a step with a load reading sets them to exactly
\* these values.
C17_ZeroStepAmended ==
    last.op = "zero_step"
    => /\ \A k \in DOMAIN data \ NetAndCostKeys : data[k] = last.result[1][k]
       /\ last.result[2] = None => data = last.result[1]
       /\ last.result[2] # None
          => data = UpdateNetValuesAndCosts(last.result[1], now)

C17_Witness ==
    /\ last.op = "zero_step"
    /\ last.period = "tick"
    /\ last.result[2] = Some(0)
    /\ now = Val(DateTime(2024, 6, 30, 23, 59))
    /\ data[Cost("base")] > 0
    /\ data[ATTR_LOAD_COST] > 0
    /\ data = last.result[1]

----------------------------------------------------------------------------
(* Claims on the backfill pass and the live path, checked under Spec *)

\* the value a history holds at a timestamp, None when it holds none
RawAt(history, ts) ==
    IF \E i \in 1..Len(history) : history[i].ts = ts
    THEN history[CHOOSE i \in 1..Len(history) : history[i].ts = ts].value
    ELSE None

\* the samples of the histories from the i-th timestamp on, fed one by one in
\* timestamp order to the integration of the live tick
RECURSIVE LiveReplay(_, _)
LiveReplay(d, i) ==
    IF i > Len(timestamps) THEN d
    ELSE LET ts == timestamps[i]
             g == RawAt(grid_history, ts)
         IN  LiveReplay(IF g = None THEN d
                        ELSE Integrate(d, ts, g, RawAt(solar_history, ts),
                                       RawAt(load_history, ts)),
                        i + 1)

\* C15: the ledger left by the backfill pass over a history equals the ledger
\* left by feeding the same samples one by one, in timestamp order, through
\* the live tick path from the same zero ledger.
C15_BackfillEqualsLive ==
    (pc = "live" /\ ticks = 0 /\ timestamps # <<>>)
    => data = LiveReplay(InitEnergyData, 1)

TickOutcomes == {"tick", "tick_skipped", "tick_error"}

C20_BackfillOnceBeforeTicks ==
    [][/\ pc \in {"setup", "backfill"} => ticks = 0
       /\ (pc = "setup" \/ (pc = "backfill" /\ idx = 1)) => data = InitEnergyData
       /\ pc = "live" => (pc' = "live" /\ idx' = idx /\ timestamps' = timestamps)
       /\ pc = "backfill" => (idx' = idx + 1 /\ timestamps' = timestamps
                              /\ pc' = IF idx = Len(timestamps) THEN "live"
                                       ELSE "backfill")
       /\ ticks' # ticks => (pc = "live" /\ idx > Len(timestamps))]_vars

\* a backfill of one sample is over and one live tick has run after it
C20_Witness ==
    /\ pc = "live"
    /\ Len(timestamps) = 1
    /\ idx = 2
    /\ ticks = 1
    /\ last.op = "tick"
    /\ last.grid = Some(6000)
    /\ data[ATTR_TOTAL_KWH_DELIVERED] + data[ATTR_TOTAL_KWH_RECEIVED]
       = Energy(2400, 5) + Energy(6000, 1)

\* the month in which the next reset falls: this month while the clock's day
\* is before the billing day, the next month otherwise
ClaimedResetMonth(nw) ==
    IF Day(nw) < billing_day THEN <<Year(nw), Month(nw)>>
    ELSE IF Month(nw) = 12 THEN <<Year(nw) + 1, 1>>
    ELSE <<Year(nw), Month(nw) + 1>>

\* midnight of the billing day in the month ym, clipped to the month's length
ClippedMidnight(ym) ==
    LET days == DaysInMonth(ym[1], ym[2])
        day == IF billing_day > days THEN days ELSE billing_day
    IN  DaysFromCivil(ym[1], ym[2], day) * 1440

\* C22: for every billing day in 1..31 and every clock value the cycle start
\* and the next reset time are defined, and are midnight of the billing day
\* clipped to the last day of the month it falls in.
C22_BillingDayClipped ==
    /\ last.op = "_get_billing_cycle_start"
       => last.result = Some(ClippedMidnight(ClaimedCycleMonth(now)))
    /\ last.op = "_get_next_reset_time"
       => last.result = Some(ClippedMidnight(ClaimedResetMonth(now)))

\* the sudden-change rule as the claim states it, for a value and the history
\* of its source
ClaimedSuddenChange(power_value, history) ==
    /\ history # <<>>
    /\ LET last_value == history[Len(history)]
       IN  /\ 10 * Abs(last_value) > 1
           /\ \/ Abs(power_value) > max_change_ratio * Abs(last_value)
              \/ max_change_ratio * Abs(power_value) < Abs(last_value)

\* the call of _is_spike recorded in last was decided by the sudden-change
\* rule: neither the ceiling nor the statistical rule fired
OnlyRatioRule ==
    /\ last.op = "_is_spike"
    /\ Abs(last.result[1]) <= spike_threshold
    /\ ~StatisticalSpike(last.result[1], last.result[3])

\* C23 as stated: the sudden-change rule fires exactly when the history is
\* non-empty, the last accepted sample exceeds the floor and the ratio of the
\* value to it is above max_change_ratio or below 1 / max_change_ratio.
C23_RatioRule ==
    OnlyRatioRule
    => (last.result[2] <=> ClaimedSuddenChange(last.result[1], last.result[3]))

\* C23 amended: the sudden-change rule fires exactly when the history is
\* non-empty, the last accepted sample and the value itself both exceed the
\* floor, and the ratio of the value to the last accepted sample is above
\* max_change_ratio or below 1 / max_change_ratio; a value whose ratio lies
\* within [1 / max_change_ratio, max_change_ratio] is never rejected by it.
C23_RatioRuleAmended ==
    OnlyRatioRule
    => (last.result[2] <=> /\ ClaimedSuddenChange(last.result[1], last.result[3])
                           /\ 10 * Abs(last.result[1]) > 1)

\* 400 W after 2400 W: a ratio of 1/6, rejected by the rule alone
C23_Witness ==
    /\ OnlyRatioRule
    /\ last.result = <<400, TRUE, (<<2400>>)>>
    /\ HistoryOf(power_history, last.period) = <<2400>>

\* C24: a call of _is_spike with a non-spike verdict appends the value at the
\* end of the history of its source and, if that makes more than 10 values,
\* evicts the oldest, so the history holds the most recent accepted values in
\* order and never more than 10; a spike verdict leaves the history as it
\* was; the histories of the other sources are not touched.
C24_HistoryFifo ==
    [][last'.op = "_is_spike"
       => LET entity_id == last'.period
              power_value == last'.result[1]
              before == HistoryOf(power_history, entity_id)
              after == HistoryOf(power_history', entity_id)
          IN  /\ before = last'.result[3]
              /\ last'.result[2] => after = before
              /\ ~last'.result[2]
                 => after = IF Len(before) < power_history_size
                            THEN Append(before, power_value)
                            ELSE Append(Tail(before), power_value)
              /\ Len(after) <= power_history_size
              /\ \A k \in DOMAIN power_history \ {entity_id} :
                     /\ k \in DOMAIN power_history'
                     /\ power_history'[k] = power_history[k]]_vars

\* a tenth-and-one value accepted: the oldest 2400 is gone, 4800 moved up
C24_Witness ==
    /\ last.op = "_is_spike"
    /\ last.result[1] = 2400
    /\ ~last.result[2]
    /\ Len(last.result[3]) = power_history_size
    /\ HistoryOf(power_history, last.period)
       = <<2400, 2400, 2400, 2400, 2400, 2400, 2400, 2400, 4800, 2400>>

\* the values the spike filter returns for one series when it is the only
\* series replayed over the merged timestamps, from iteration i on
RECURSIVE OwnValues(_, _, _)
OwnValues(history, ph, i) ==
    IF i > Len(timestamps) THEN <<>>
    ELSE LET r == GetPowerAtTimestamp(ph, history, timestamps[i])
         IN  <<r.value>> \o OwnValues(history, r.power_history, i + 1)

\* C25: in a backfill pass the value the spike filter returns for a sample of
\* one source is the value it returns when the series of that source is
\* replayed alone, whatever the other source delivered, for statistics rows
\* and for state objects.
C25_VerdictPerSource ==
    last.op = "_process_historical_data"
    => \A i \in 1..Len(last.result) :
          /\ last.result[i].grid = OwnValues(grid_history, <<>>, 1)[i]
          /\ solar_history # <<>>
             => last.result[i].solar = OwnValues(solar_history, <<>>, 1)[i]

\* the same for state objects only, which carry their entity id
C25_VerdictPerSourceStates ==
    (last.op = "_process_historical_data" /\ grid_history[1].fmt = "state")
    => \A i \in 1..Len(last.result) :
          /\ last.result[i].grid = OwnValues(grid_history, <<>>, 1)[i]
          /\ solar_history # <<>>
             => last.result[i].solar = OwnValues(solar_history, <<>>, 1)[i]

\* the grid energy in the ledger d, delivered and received together
GridEnergyIn(d) == d[ATTR_TOTAL_KWH_DELIVERED] + d[ATTR_TOTAL_KWH_RECEIVED]

\* the ledger before iteration i of the pass recorded in last
LedgerBefore(i) == IF i = 1 THEN InitEnergyData ELSE last.result[i - 1].data

\* C26: the backfill pass runs over the timestamps of all series, merged into
\* one strictly ascending sequence without duplicates, in that order; every
\* timestamp but the last is integrated over the gap to the next one, which
\* is > 0, and the last one over 5 minutes.
C26_MergedAscendingDurations ==
    last.op = "_process_historical_data"
    => LET n == Len(timestamps)
           steps == last.result
       IN  /\ {timestamps[i] : i \in 1..n}
              = TimestampsOf(grid_history) \cup TimestampsOf(solar_history)
                \cup TimestampsOf(load_history)
           /\ \A i \in 1..(n - 1) : timestamps[i] < timestamps[i + 1]
           /\ Len(steps) = n
           /\ \A i \in 1..n :
                  LET duration == IF i < n THEN timestamps[i + 1] - timestamps[i]
                                  ELSE 5
                  IN  /\ steps[i].ts = timestamps[i]
                      /\ steps[i].minutes = duration
                      /\ duration > 0
                      /\ steps[i].grid # None
                         => GridEnergyIn(steps[i].data)
                            = GridEnergyIn(LedgerBefore(i))
                              + Abs(Energy(Val(steps[i].grid), duration))

\* grid and solar records at 13:00 and 13:10: two timestamps, the first
\* integrated over 10 minutes, the second over 5
C26_Witness ==
    /\ last.op = "_process_historical_data"
    /\ Len(grid_history) = 2
    /\ Len(solar_history) = 2
    /\ timestamps = <<SourceStamps[1], SourceStamps[3]>>
    /\ last.result[1].minutes = 10
    /\ last.result[2].minutes = 5
    /\ data[ATTR_TOTAL_KWH_DELIVERED] = Energy(2400, 10) + Energy(2400, 5)

\* C27: in the backfill pass an iteration whose timestamp has no grid value
\* leaves every field of the ledger as the iteration before left it, also
\* when a solar value exists at the timestamp.
C27_NoGridNoChange ==
    last.op = "_process_historical_data"
    => \A i \in 1..Len(last.result) :
          last.result[i].grid = None => last.result[i].data = LedgerBefore(i)

\* grid at 13:00 and 13:10, solar 1200 W at 13:05 only: the second iteration
\* has a solar value and no grid value
C27_Witness ==
    /\ last.op = "_process_historical_data"
    /\ Len(last.result) = 3
    /\ last.result[2].grid = None
    /\ last.result[2].solar = Some(1200)
    /\ last.result[2].data = last.result[1].data
    /\ last.result[2].data[ATTR_TOTAL_KWH_GENERATED] = 0
    /\ last.result[2].data[ATTR_TOTAL_KWH_DELIVERED] > 0

\* the minutes a grid series covers when it is replayed alone: from its first
\* to its last record, and 5 minutes for the last
GridSpan ==
    grid_history[Len(grid_history)].ts - grid_history[1].ts + 5

\* C30: in the backfill pass a constant grid power that the spike filter
\* accepts is integrated over the whole span of the grid series, whatever
\* timestamps the solar series adds to the merged sequence.
C30_GridEnergyWholeSpan ==
    (last.op = "_process_historical_data"
     /\ \A i \in 1..Len(last.result) : last.result[i].grid \in {None, Some(2400)})
    => data[ATTR_TOTAL_KWH_DELIVERED] = Energy(2400, GridSpan)

----------------------------------------------------------------------------
(* Claims on tier pricing, the merged timestamps and the totals, checked   *)
(* under Spec                                                               *)

\* C21: under the standard plan every cost figure of a live tick is priced at
\* the tier of the ledger totals as they were before the tick's sample was
\* added: the savings and the load cost added by the tick, and the period
\* costs the tick writes.
C21_TierBeforeSample ==
    [][(rate_plan = RATE_PLAN_STANDARD /\ last'.op = "tick")
       => LET period == GetTimePeriod(now')
              before == GetRate(data, now', period)
          IN  /\ last'.solar # None
                 => data'[ATTR_SOLAR_COST_SAVINGS]
                    = data[ATTR_SOLAR_COST_SAVINGS]
                      + Energy(Val(last'.solar), 1) * before
              /\ last'.load # None
                 => data'[ATTR_LOAD_COST]
                    = data[ATTR_LOAD_COST] + Energy(Val(last'.load), 1) * before
              /\ last'.updated
                 => \A p \in PeriodSet :
                       data'[Net(p)] > 0
                       => data'[Cost(p)] = data'[Net(p)] * GetRate(data, now', p)]_vars

\* the sum of the three period fields of one kind
PeriodSum(Field(_)) ==
    data[Field("high_peak")] + data[Field("low_peak")] + data[Field("base")]

\* C28: in every reachable state each total is the sum of its three period
\* fields: delivered, received and, when configured, generated and consumed.
C28_TotalsAreSums ==
    /\ data[ATTR_TOTAL_KWH_DELIVERED] = PeriodSum(Delivered)
    /\ data[ATTR_TOTAL_KWH_RECEIVED] = PeriodSum(Received)
    /\ solar_entity_id # ""
       => data[ATTR_TOTAL_KWH_GENERATED] = PeriodSum(Generated)
    /\ load_entity_id # ""
       => data[ATTR_TOTAL_KWH_CONSUMED] = PeriodSum(Consumed)

\* a backfill sample in the high-peak window and a live tick in the base
\* period, with solar and load values in both
C28_Witness ==
    /\ pc = "live"
    /\ ticks = 1
    /\ data[Delivered("high_peak")] > 0
    /\ data[Delivered("base")] > 0
    /\ solar_entity_id # ""
    /\ load_entity_id # ""
    /\ data[Generated("high_peak")] > 0
    /\ data[Generated("base")] > 0
    /\ data[Consumed("high_peak")] > 0
    /\ data[Consumed("base")] > 0
    /\ data[ATTR_TOTAL_KWH_GENERATED]
       = data[Generated("high_peak")] + data[Generated("base")]

----------------------------------------------------------------------------
(* Claim on a sustained level, checked under SpecSustained *)

\* C29: a source that reports the same value v, |v| <= spike threshold, at
\* every sample has v accepted by _is_spike after finitely many samples.
C29_SustainedLevelAccepted ==
    (last.op = "sustained" /\ Abs(last.result[1]) <= spike_threshold)
    ~> last.result[2]

====
